---- MODULE Spec2Model ----
(***************************************************************************)
(* Model of the two-phase agent matching service (src/app.py,              *)
(* src/processor.py): the Session Store (index_cache), the upload folder,  *)
(* the ingestion handler match_agents, the module handler                  *)
(* generate_agent_module, the Result Parser _safe_json_extract and the     *)
(* text filters strip_meta / remove_forbidden_lines / find_violations.     *)
(*                                                                         *)
(* Python values that come out of json.loads are represented by their      *)
(* canonical JSON lexeme sequence (whitespace removed), so None is         *)
(* <<"null">>, [] is <<"[","]">> and {} is <<"{","}">>.  Raw Classifier    *)
(* text for the first phase is a sequence of lexemes; free text for the    *)
(* second phase is a sequence of characters.                               *)
(***************************************************************************)
EXTENDS Integers, Sequences, FiniteSets, TLC

VARIABLES
    uploads,       \* UPLOAD_FOLDER: file name -> content of the file
    index_cache,   \* the Session Store: session id -> entry (a dict)
    faiss_dirs,    \* /tmp/faiss_<session_id>: session id -> saved index
    pc,            \* per ingestion call: position in match_agents
    req,           \* per ingestion call: the request (form fields and files)
    loc,           \* per ingestion call: the handler's local variables
    resp,          \* per ingestion call: the response returned
    gen,           \* the last generate_agent_module exchange
    rag            \* the last rag_chain call: all_docs and relevant_docs

vars == <<uploads, index_cache, faiss_dirs, pc, req, loc, resp, gen, rag>>

(***************************************************************************)
(* Python dicts as functions whose DOMAIN is the set of keys present.      *)
(***************************************************************************)
EmptyDict == [k \in {} |-> k]

DictPut(d, key, v) ==
    [k \in DOMAIN d \cup {key} |-> IF k = key THEN v ELSE d[k]]

DictUpdate(d, e) ==
    [k \in DOMAIN d \cup DOMAIN e |-> IF k \in DOMAIN e THEN e[k] ELSE d[k]]

(***************************************************************************)
(* JSON lexemes.  A raw Classifier text is a sequence of these.            *)
(***************************************************************************)
LBRACE == "{"
RBRACE == "}"
LBRACK == "["
RBRACK == "]"
COMMA == ","
COLON == ":"
WS == " "

K_pain_points == "\"pain_points\""
K_eligibility == "\"eligibility\""
K_agents == "\"agents\""
K_rationale == "\"rationale\""
K_eligible == "\"eligible\""
K_evidence == "\"evidence\""
K_reason == "\"reason\""

\* the keys of AGENT_DEFINITIONS (app.py 16-25): the fixed 8-agent catalog
AGENT_DEFINITIONS ==
    {"HYPE", "STRIKE", "CARE", "VISION", "FLOW", "ASSET", "TEAM", "CODE"}

\* the JSON string lexeme of an agent code, e.g. "\"CARE\""
Quoted ==
    [a \in AGENT_DEFINITIONS \cup {"BOGUS"} |->
        CASE a = "HYPE" -> "\"HYPE\""
          [] a = "STRIKE" -> "\"STRIKE\""
          [] a = "CARE" -> "\"CARE\""
          [] a = "VISION" -> "\"VISION\""
          [] a = "FLOW" -> "\"FLOW\""
          [] a = "ASSET" -> "\"ASSET\""
          [] a = "TEAM" -> "\"TEAM\""
          [] a = "CODE" -> "\"CODE\""
          [] a = "BOGUS" -> "\"BOGUS\""]

StringToks ==
    {K_pain_points, K_eligibility, K_agents, K_rationale, K_eligible,
     K_evidence, K_reason, "\"\"", "\"p1\"", "\"p2\"", "\"q1\"", "\"q2\"", "\"r\""}
    \cup {Quoted[a] : a \in DOMAIN Quoted}
LiteralToks == {"true", "false", "null"}
NumberToks == {"0", "1"}
ScalarToks == StringToks \cup LiteralToks \cup NumberToks
ProseToks == {"Here", "result"}

PyNone == <<"null">>
PyEmptyList == <<LBRACK, RBRACK>>
PyEmptyDict == <<LBRACE, RBRACE>>

(***************************************************************************)
(* json.loads: a recursive-descent decoder over lexemes.  Each Parse*      *)
(* operator returns [ok, val, pos]: whether a value was read starting at   *)
(* position i, its canonical form, and the position after it.              *)
(***************************************************************************)
RECURSIVE SkipWs(_, _)
SkipWs(t, i) ==
    IF i <= Len(t) /\ t[i] = WS THEN SkipWs(t, i + 1) ELSE i

ParseFail == [ok |-> FALSE, val |-> <<>>, pos |-> 0]

RECURSIVE ParseValue(_, _)
RECURSIVE ParseMembers(_, _, _)
RECURSIVE ParseElems(_, _, _)

\* members of an object after "{" or after a ","; acc is the canonical prefix
ParseMembers(t, i0, acc) ==
    LET i == SkipWs(t, i0) IN
    IF i > Len(t) \/ t[i] \notin StringToks THEN ParseFail
    ELSE LET j == SkipWs(t, i + 1) IN
         IF j > Len(t) \/ t[j] # COLON THEN ParseFail
         ELSE LET v == ParseValue(t, j + 1) IN
              IF ~v.ok THEN ParseFail
              ELSE LET k == SkipWs(t, v.pos)
                       acc2 == acc \o <<t[i], COLON>> \o v.val
                   IN IF k > Len(t) THEN ParseFail
                      ELSE IF t[k] = RBRACE
                           THEN [ok |-> TRUE, val |-> acc2 \o <<RBRACE>>, pos |-> k + 1]
                      ELSE IF t[k] = COMMA
                           THEN ParseMembers(t, k + 1, acc2 \o <<COMMA>>)
                      ELSE ParseFail

\* elements of an array after "[" or after a ","
ParseElems(t, i0, acc) ==
    LET v == ParseValue(t, i0) IN
    IF ~v.ok THEN ParseFail
    ELSE LET k == SkipWs(t, v.pos)
             acc2 == acc \o v.val
         IN IF k > Len(t) THEN ParseFail
            ELSE IF t[k] = RBRACK
                 THEN [ok |-> TRUE, val |-> acc2 \o <<RBRACK>>, pos |-> k + 1]
            ELSE IF t[k] = COMMA
                 THEN ParseElems(t, k + 1, acc2 \o <<COMMA>>)
            ELSE ParseFail

ParseValue(t, i0) ==
    LET i == SkipWs(t, i0) IN
    IF i > Len(t) THEN ParseFail
    ELSE IF t[i] \in ScalarToks
         THEN [ok |-> TRUE, val |-> <<t[i]>>, pos |-> i + 1]
    ELSE IF t[i] = LBRACE
         THEN LET j == SkipWs(t, i + 1) IN
              IF j <= Len(t) /\ t[j] = RBRACE
              THEN [ok |-> TRUE, val |-> PyEmptyDict, pos |-> j + 1]
              ELSE ParseMembers(t, i + 1, <<LBRACE>>)
    ELSE IF t[i] = LBRACK
         THEN LET j == SkipWs(t, i + 1) IN
              IF j <= Len(t) /\ t[j] = RBRACK
              THEN [ok |-> TRUE, val |-> PyEmptyList, pos |-> j + 1]
              ELSE ParseElems(t, i + 1, <<LBRACK>>)
    ELSE ParseFail

\* json.loads(text): one value, then only whitespace up to the end
json_loads(t) ==
    LET v == ParseValue(t, 1) IN
    IF v.ok /\ SkipWs(t, v.pos) > Len(t)
    THEN [ok |-> TRUE, val |-> v.val]
    ELSE [ok |-> FALSE, val |-> <<>>]

(***************************************************************************)
(* str.find / str.rfind of a one-character needle: 0 stands for -1.        *)
(***************************************************************************)
RECURSIVE FindFrom(_, _, _)
FindFrom(t, c, i) ==
    IF i > Len(t) THEN 0
    ELSE IF t[i] = c THEN i
    ELSE FindFrom(t, c, i + 1)

RECURSIVE RFindFrom(_, _, _)
RFindFrom(t, c, i) ==
    IF i < 1 THEN 0
    ELSE IF t[i] = c THEN i
    ELSE RFindFrom(t, c, i - 1)

find(t, c) == FindFrom(t, c, 1)
rfind(t, c) == RFindFrom(t, c, Len(t))

\* a bug the Result Parser could have: cutting at the first "}" instead of the last
_safe_json_extract_first_rbrace(text) ==
    LET full == json_loads(text) IN
    IF full.ok THEN full.val
    ELSE LET start == find(text, LBRACE)
             end == find(text, RBRACE)
         IN IF start # 0 /\ end # 0 /\ end > start
            THEN LET sub == json_loads(SubSeq(text, start, end)) IN
                 IF sub.ok THEN sub.val ELSE PyNone
            ELSE PyNone

\* _safe_json_extract (app.py 87-99); "return None" is PyNone
_safe_json_extract(text) ==
    LET full == json_loads(text) IN
    IF full.ok THEN full.val
    ELSE LET start == find(text, LBRACE)
             end == rfind(text, RBRACE)
         IN IF start # 0 /\ end # 0 /\ end > start
            THEN LET sub == json_loads(SubSeq(text, start, end)) IN
                 IF sub.ok THEN sub.val ELSE PyNone
            ELSE PyNone

(***************************************************************************)
(* Reading decoded values: truthiness, dict.get, list elements.            *)
(***************************************************************************)
Falsy == {PyNone, <<"false">>, <<"0">>, <<"\"\"">>, PyEmptyList, PyEmptyDict}
Truthy(v) == v \notin Falsy
IsDict(v) == Len(v) >= 1 /\ v[1] = LBRACE
IsList(v) == Len(v) >= 1 /\ v[1] = LBRACK

\* the top-level items of a canonical dict or list body, from position i:
\* a sequence of [key, val] (key is "" for list elements)
RECURSIVE Items(_, _, _)
Items(v, i, keyed) ==
    IF i >= Len(v) THEN <<>>
    ELSE LET vs == IF keyed THEN i + 2 ELSE i
             pv == ParseValue(v, vs)
             item == [key |-> IF keyed THEN v[i] ELSE "", val |-> pv.val]
         IN <<item>> \o Items(v, pv.pos + 1, keyed)

\* dict.get(key, default): the last member with that key wins
RECURSIVE LastWithKey(_, _, _, _)
LastWithKey(items, key, n, default) ==
    IF n = 0 THEN default
    ELSE IF items[n].key = key THEN items[n].val
    ELSE LastWithKey(items, key, n - 1, default)

DictGet(d, key, default) ==
    LET items == Items(d, 2, TRUE) IN LastWithKey(items, key, Len(items), default)

\* the elements of a list value
ListElems(l) ==
    LET items == Items(l, 2, FALSE) IN [n \in 1..Len(items) |-> items[n].val]

(***************************************************************************)
(* Free text (second phase): a sequence of one-character strings, with     *)
(* Python's str operations on it.                                          *)
(***************************************************************************)
NL == "\n"
\* the backquote character (the lexer does not take one inside a string)
BACKTICK == "BACKQUOTE"
Whitespace == {" ", "\n", "\r", "\t", "\f"}
LineBreaks == {"\n", "\r", "\f"}

UpperChars ==
    <<"A","B","C","D","E","F","G","H","I","J","K","L","M",
      "N","O","P","Q","R","S","T","U","V","W","X","Y","Z">>
LowerChars ==
    <<"a","b","c","d","e","f","g","h","i","j","k","l","m",
      "n","o","p","q","r","s","t","u","v","w","x","y","z">>

LowerChar(c) ==
    IF \E n \in 1..26 : UpperChars[n] = c
    THEN LowerChars[CHOOSE n \in 1..26 : UpperChars[n] = c]
    ELSE c

\* str.lower()
lower(s) == [n \in 1..Len(s) |-> LowerChar(s[n])]

\* s[i:].startswith(pat), 1-based
StartsWithAt(s, i, pat) ==
    /\ i + Len(pat) - 1 <= Len(s)
    /\ \A n \in 1..Len(pat) : s[i + n - 1] = pat[n]

startswith(s, pat) == StartsWithAt(s, 1, pat)

\* pat in s
Contains(s, pat) ==
    \E i \in 1..(Len(s) - Len(pat) + 1) : StartsWithAt(s, i, pat)

\* s.find(pat, i): the first position >= i where pat starts, 0 for -1
RECURSIVE FindSub(_, _, _)
FindSub(s, pat, i) ==
    IF i + Len(pat) - 1 > Len(s) THEN 0
    ELSE IF StartsWithAt(s, i, pat) THEN i
    ELSE FindSub(s, pat, i + 1)

\* str.strip()
RECURSIVE LStripFrom(_, _)
LStripFrom(s, i) ==
    IF i <= Len(s) /\ s[i] \in Whitespace THEN LStripFrom(s, i + 1) ELSE i

RECURSIVE RStripFrom(_, _)
RStripFrom(s, j) ==
    IF j >= 1 /\ s[j] \in Whitespace THEN RStripFrom(s, j - 1) ELSE j

strip(s) == SubSeq(s, LStripFrom(s, 1), RStripFrom(s, Len(s)))

\* str.splitlines(): CR LF is one break, and a final break opens no empty
\* last line.  LineEnd is the position where the first line ends.
RECURSIVE LineEnd(_, _)
LineEnd(s, i) ==
    IF i > Len(s) \/ s[i] \in LineBreaks THEN i ELSE LineEnd(s, i + 1)

RECURSIVE splitlines(_)
splitlines(s) ==
    IF s = <<>> THEN <<>>
    ELSE LET e == LineEnd(s, 1)
             next == IF e < Len(s) /\ s[e] = "\r" /\ s[e + 1] = "\n"
                     THEN e + 2 ELSE e + 1
         IN <<SubSeq(s, 1, e - 1)>> \o splitlines(SubSeq(s, next, Len(s)))

\* "\n".join(lines)
RECURSIVE join(_)
join(lines) ==
    IF lines = <<>> THEN <<>>
    ELSE IF Len(lines) = 1 THEN lines[1]
    ELSE lines[1] \o <<NL>> \o join(Tail(lines))

(***************************************************************************)
(* Ownership tables and the sanitization pipeline (app.py 101-141).        *)
(***************************************************************************)
\* the terms of FORBIDDEN_BY_AGENT, spelled as character sequences
T_reconciliation == <<"r","e","c","o","n","c","i","l","i","a","t","i","o","n">>
T_invoice == <<"i","n","v","o","i","c","e">>
T_insurance_form == <<"i","n","s","u","r","a","n","c","e"," ","f","o","r","m">>
T_claims == <<"c","l","a","i","m","s">>
T_ar_ap == <<"a","r","/","a","p">>
T_cash_flow == <<"c","a","s","h"," ","f","l","o","w">>
T_24_7 == <<"2","4","/","7">>
T_chatbot == <<"c","h","a","t","b","o","t">>
T_ticket == <<"t","i","c","k","e","t">>
T_knowledge_base == <<"k","n","o","w","l","e","d","g","e"," ","b","a","s","e">>
T_emr_extraction == <<"e","m","r"," ","e","x","t","r","a","c","t","i","o","n">>
T_data_platform == <<"d","a","t","a"," ","p","l","a","t","f","o","r","m">>
T_feedback == <<"f","e","e","d","b","a","c","k">>
T_pipeline == <<"p","i","p","e","l","i","n","e">>
T_proposal == <<"p","r","o","p","o","s","a","l">>
T_ab_testing == <<"a","b"," ","t","e","s","t","i","n","g">>
T_onboarding_hr == <<"o","n","b","o","a","r","d","i","n","g"," ","(","h","r",")">>
T_data_platform_ownership == <<"d","a","t","a"," ","p","l","a","t","f","o","r","m"," ","o","w","n","e","r","s","h","i","p">>
T_after_hours == <<"a","f","t","e","r","-","h","o","u","r","s">>
T_unified_data_platform == <<"u","n","i","f","i","e","d"," ","d","a","t","a"," ","p","l","a","t","f","o","r","m">>
T_collections == <<"c","o","l","l","e","c","t","i","o","n","s">>

FORBIDDEN_BY_AGENT ==
       "HYPE" :> <<T_reconciliation, T_invoice, T_insurance_form, T_claims, T_ar_ap, T_cash_flow, T_24_7, T_chatbot, T_ticket, T_knowledge_base, T_emr_extraction, T_data_platform>>
    @@ "STRIKE" :> <<T_reconciliation, T_invoice, T_insurance_form, T_claims, T_ar_ap, T_cash_flow, T_24_7, T_chatbot, T_feedback, T_knowledge_base, T_emr_extraction, T_data_platform>>
    @@ "CARE" :> <<T_reconciliation, T_invoice, T_insurance_form, T_claims, T_ar_ap, T_cash_flow, T_pipeline, T_proposal, T_ab_testing, T_emr_extraction, T_data_platform>>
    @@ "VISION" :> <<T_reconciliation, T_invoice, T_insurance_form, T_claims, T_ar_ap, T_24_7, T_chatbot, T_feedback, T_onboarding_hr, T_emr_extraction, T_data_platform_ownership>>
    @@ "FLOW" :> <<T_reconciliation, T_invoice, T_insurance_form, T_claims, T_24_7, T_chatbot, T_feedback, T_emr_extraction>>
    @@ "ASSET" :> <<T_24_7, T_after_hours, T_chatbot, T_feedback, T_knowledge_base, T_pipeline, T_ab_testing, T_data_platform, T_emr_extraction, T_unified_data_platform>>
    @@ "TEAM" :> <<T_reconciliation, T_invoice, T_insurance_form, T_claims, T_ar_ap, T_24_7, T_chatbot, T_ab_testing, T_pipeline, T_data_platform, T_emr_extraction>>
    @@ "CODE" :> <<T_reconciliation, T_invoice, T_insurance_form, T_claims, T_ar_ap, T_24_7, T_chatbot, T_feedback, T_collections>>

safe_empty ==
    <<"N","o"," ","r","e","l","e","v","a","n","t"," ","o",
      "u","t","c","o","m","e","s"," ","f","o","r"," ","t",
      "h","i","s"," ","a","g","e","n","t"," ","g","i","v",
      "e","n"," ","t","h","e"," ","p","a","i","n","s",".">>

\* FORBIDDEN_BY_AGENT.get(agent, [])
ForbiddenOf(agent) ==
    IF agent \in DOMAIN FORBIDDEN_BY_AGENT THEN FORBIDDEN_BY_AGENT[agent] ELSE <<>>

\* any(term in ll for term in forb)
AnyTermIn(forb, ll) == \E n \in 1..Len(forb) : Contains(ll, forb[n])

\* find_violations (app.py 113-115): the forbidden terms found in the text
find_violations(agent, text) ==
    LET t == lower(text) IN
    {ForbiddenOf(agent)[n] : n \in {m \in 1..Len(ForbiddenOf(agent)) :
                                       Contains(t, ForbiddenOf(agent)[m])}}

\* a bug the filter could have: matching the line as written, not lowercased
remove_forbidden_lines_case_sensitive(agent, text) ==
    LET forb == [n \in 1..Len(ForbiddenOf(agent)) |-> lower(ForbiddenOf(agent)[n])]
        lines == splitlines(text)
        IsKept(ln) == ~AnyTermIn(forb, ln)
        IsRemoved(ln) == AnyTermIn(forb, ln)
    IN [cleaned |-> strip(join(SelectSeq(lines, IsKept))),
        removed |-> SelectSeq(lines, IsRemoved)]

\* a bug remove_forbidden_lines could have: the joined text is not stripped
remove_forbidden_lines_no_strip(agent, text) ==
    LET forb == [n \in 1..Len(ForbiddenOf(agent)) |-> lower(ForbiddenOf(agent)[n])]
        lines == splitlines(text)
        IsKept(ln) == ~AnyTermIn(forb, lower(ln))
        IsRemoved(ln) == AnyTermIn(forb, lower(ln))
    IN [cleaned |-> join(SelectSeq(lines, IsKept)),
        removed |-> SelectSeq(lines, IsRemoved)]

\* remove_forbidden_lines (app.py 117-128): returns (cleaned, removed)
remove_forbidden_lines(agent, text) ==
    LET forb == [n \in 1..Len(ForbiddenOf(agent)) |-> lower(ForbiddenOf(agent)[n])]
        lines == splitlines(text)
        IsKept(ln) == ~AnyTermIn(forb, lower(ln))
        IsRemoved(ln) == AnyTermIn(forb, lower(ln))
    IN [cleaned |-> strip(join(SelectSeq(lines, IsKept))),
        removed |-> SelectSeq(lines, IsRemoved)]

FENCE == <<BACKTICK, BACKTICK, BACKTICK>>
SOURCES_MARK == <<"s","o","u","r","c","e","s",":">>

\* re.sub of a fence, a lazy run of any characters and a fence, by "" (re.S):
\* each opening fence is closed by the next fence after it
RECURSIVE RemoveFences(_)
RemoveFences(s) ==
    LET i == FindSub(s, FENCE, 1) IN
    IF i = 0 THEN s
    ELSE LET j == FindSub(s, FENCE, i + 3) IN
         IF j = 0 THEN s
         ELSE SubSeq(s, 1, i - 1) \o RemoveFences(SubSeq(s, j + 3, Len(s)))

\* strip_meta (app.py 130-141)
strip_meta(text) ==
    LET t == RemoveFences(text)
        IsMetaLine(ln) ==
            \/ startswith(lower(strip(ln)), SOURCES_MARK)
            \/ startswith(strip(ln), FENCE)
        IsKept(ln) == ~IsMetaLine(ln)
    IN strip(join(SelectSeq(splitlines(t), IsKept)))

(***************************************************************************)
(* The first phase: match_agents (app.py 143-211), one process per call.   *)
(* Flask serves each request on its own thread, so the calls interleave    *)
(* at every access to the upload folder, the Session Store and /tmp.       *)
(***************************************************************************)
Calls == {"a", "b"}
SessionIds == {"default", "s2"}

\* the (transcript, agent_manual) file names a request may carry
FilePairs == {<<"call.pdf", "manual.pdf">>, <<"notes.pdf", "playbook.pdf">>}
CompanyInfos == {"", "info"}

\* the text of the documents a call uploads; a blank document has no text
BlankDoc == <<>>
Doc(c, role) == <<c, role>>

NoIndex == [transcript |-> BlankDoc, agent |-> BlankDoc, company |-> ""]

NoReq ==
    [session_id |-> "", transcript_name |-> "", agent_name |-> "",
     company_info |-> "", transcript |-> BlankDoc, agent |-> BlankDoc]

NoLoc ==
    [before |-> EmptyDict, transcript |-> BlankDoc, index |-> NoIndex,
     has_result |-> FALSE, result_text |-> <<>>, extracted |-> PyNone,
     pain_points |-> PyEmptyList, matched_agents |-> PyEmptyList,
     rationale |-> PyEmptyDict]

NoResp ==
    [status |-> 0, error |-> "", session_id |-> "", pain_points |-> <<>>,
     matched_agents |-> <<>>, rationale |-> <<>>, raw |-> <<>>]

\* the except clause (app.py 209-211)
ErrorResp(msg) == [NoResp EXCEPT !.status = 500, !.error = msg]

\* the part of the Session Store under one session id
StoreAt(sid) == [s \in DOMAIN index_cache \cap {sid} |-> index_cache[s]]

\* load_all_documents + split_into_chunks (processor.py 33-94): what the
\* index is built from; a blank document and an empty company_info add nothing
Chunks(transcript, agent, company_info) ==
    [transcript |-> transcript, agent |-> agent, company |-> company_info]

NoDocuments(chunks) ==
    chunks.transcript = BlankDoc /\ chunks.agent = BlankDoc /\ chunks.company = ""

\* the entry written when the index is built (app.py 164-169)
NewEntry(index, transcript_path, agent_path, company_info) ==
    ("index" :> index) @@ ("transcript_path" :> transcript_path)
    @@ ("agent_path" :> agent_path) @@ ("company_info" :> company_info)

\* parsed = _safe_json_extract(result_text) or {}  (app.py 189)
ParsedOrEmpty(extracted) ==
    IF Truthy(extracted) THEN extracted ELSE PyEmptyDict

\* parsed.get(key, default) or default  (app.py 191-193)
GetOr(parsed, key, default) ==
    LET v == DictGet(parsed, key, default) IN IF Truthy(v) THEN v ELSE default

\* the analysis fields cached and returned (app.py 191-199)
AnalysisFields(parsed) ==
    ("pain_points" :> GetOr(parsed, K_pain_points, PyEmptyList))
    @@ ("matched_agents" :> GetOr(parsed, K_agents, PyEmptyList))
    @@ ("rationale" :> GetOr(parsed, K_rationale, PyEmptyDict))

\* the requests a call may make: form fields, file names, document text
Request(c, sid, fp, ci, blank) ==
    [session_id |-> sid, transcript_name |-> fp[1], agent_name |-> fp[2],
     company_info |-> ci,
     transcript |-> IF blank THEN BlankDoc ELSE Doc(c, "transcript"),
     agent |-> IF blank THEN BlankDoc ELSE Doc(c, "agent_manual")]

AnyRequest(c) ==
    {Request(c, sid, fp, ci, blank) :
        sid \in SessionIds, fp \in FilePairs, ci \in CompanyInfos, blank \in BOOLEAN}

\* requests with documents that have text, and the call's own company info
OwnInfo(c) == IF c = "a" THEN "info of a" ELSE "info of b"
FullRequest(c) ==
    {Request(c, sid, fp, OwnInfo(c), FALSE) : sid \in SessionIds, fp \in FilePairs}

\* a request arrives (app.py 146-154, 163): files, form fields
Begin(c, Requests) ==
    /\ pc[c] = "idle"
    /\ \E r \in Requests :
          /\ req' = [req EXCEPT ![c] = r]
          /\ loc' = [loc EXCEPT ![c] = [NoLoc EXCEPT !.before = StoreAt(r.session_id)]]
    /\ pc' = [pc EXCEPT ![c] = "save_transcript"]
    /\ UNCHANGED <<uploads, index_cache, faiss_dirs, resp, gen, rag>>

\* transcript_file.save(transcript_path)  (app.py 149, 151)
SaveTranscript(c) ==
    /\ pc[c] = "save_transcript"
    /\ uploads' = DictPut(uploads, req[c].transcript_name, req[c].transcript)
    /\ pc' = [pc EXCEPT ![c] = "save_agent"]
    /\ UNCHANGED <<index_cache, faiss_dirs, req, loc, resp, gen, rag>>

\* agent_file.save(agent_path)  (app.py 150, 152)
SaveAgent(c) ==
    /\ pc[c] = "save_agent"
    /\ uploads' = DictPut(uploads, req[c].agent_name, req[c].agent)
    /\ pc' = [pc EXCEPT ![c] = "load_transcript"]
    /\ UNCHANGED <<index_cache, faiss_dirs, req, loc, resp, gen, rag>>

\* load_all_documents reads the transcript file by its path (app.py 156)
LoadTranscript(c) ==
    /\ pc[c] = "load_transcript"
    /\ loc' = [loc EXCEPT ![c].transcript = uploads[req[c].transcript_name]]
    /\ pc' = [pc EXCEPT ![c] = "load_agent"]
    /\ UNCHANGED <<uploads, index_cache, faiss_dirs, req, resp, gen, rag>>

\* load_all_documents reads the agent file; company info is appended; the
\* chunks are indexed, and build_faiss_index raises on no documents
\* (app.py 156-161, processor.py 96-101)
LoadAgentAndBuild(c) ==
    /\ pc[c] = "load_agent"
    /\ LET chunks == Chunks(loc[c].transcript, uploads[req[c].agent_name],
                            req[c].company_info)
       IN IF NoDocuments(chunks)
          THEN /\ resp' = [resp EXCEPT ![c] = ErrorResp("No documents provided for indexing.")]
               /\ pc' = [pc EXCEPT ![c] = "done"]
               /\ loc' = loc
          ELSE /\ loc' = [loc EXCEPT ![c].index = chunks]
               /\ pc' = [pc EXCEPT ![c] = "store"]
               /\ resp' = resp
    /\ UNCHANGED <<uploads, index_cache, faiss_dirs, req, gen, rag>>

\* index_cache[session_id] = {...}  (app.py 163-169)
StoreIndex(c) ==
    /\ pc[c] = "store"
    /\ index_cache' = DictPut(index_cache, req[c].session_id,
                              NewEntry(loc[c].index, req[c].transcript_name,
                                       req[c].agent_name, req[c].company_info))
    /\ pc' = [pc EXCEPT ![c] = "save_local"]
    /\ UNCHANGED <<uploads, faiss_dirs, req, loc, resp, gen, rag>>

\* index.save_local(save_dir), whose failure is swallowed (app.py 171-176)
SaveLocal(c) ==
    /\ pc[c] = "save_local"
    /\ \/ /\ faiss_dirs' = DictPut(faiss_dirs, req[c].session_id, loc[c].index)
          /\ index_cache' = [index_cache EXCEPT ![req[c].session_id] =
                                DictPut(@, "save_dir", req[c].session_id)]
       \/ UNCHANGED <<faiss_dirs, index_cache>>
    /\ pc' = [pc EXCEPT ![c] = "rag_chain"]
    /\ UNCHANGED <<uploads, req, loc, resp, gen, rag>>

\* rag_chain returns raw text; it is parsed, cached and returned; a decoded
\* value that is not a dict has no get, which raises (app.py 188-207)
ClassifyAndUpdate(c, Texts) ==
    /\ pc[c] = "rag_chain"
    /\ \E result_text \in Texts :
       \E extracted \in {_safe_json_extract(result_text)} :
       \E parsed \in {ParsedOrEmpty(extracted)} :
          IF ~IsDict(parsed)
          THEN /\ loc' = [loc EXCEPT ![c].has_result = TRUE,
                                     ![c].result_text = result_text,
                                     ![c].extracted = extracted]
               /\ resp' = [resp EXCEPT ![c] = ErrorResp("object has no attribute 'get'")]
               /\ index_cache' = index_cache
          ELSE \E fields \in {AnalysisFields(parsed)} :
               /\ loc' = [loc EXCEPT ![c].has_result = TRUE,
                                     ![c].result_text = result_text,
                                     ![c].extracted = extracted,
                                     ![c].pain_points = fields["pain_points"],
                                     ![c].matched_agents = fields["matched_agents"],
                                     ![c].rationale = fields["rationale"]]
               /\ index_cache' = [index_cache EXCEPT ![req[c].session_id] =
                                     DictUpdate(@, fields)]
               /\ resp' = [resp EXCEPT ![c] =
                             [status |-> 200, error |-> "",
                              session_id |-> req[c].session_id,
                              pain_points |-> fields["pain_points"],
                              matched_agents |-> fields["matched_agents"],
                              rationale |-> fields["rationale"],
                              raw |-> result_text]]
    /\ pc' = [pc EXCEPT ![c] = "done"]
    /\ UNCHANGED <<uploads, faiss_dirs, req, gen, rag>>

\* a collaborator raises (file save, PDF parsing, embedding, the Classifier
\* call): the except clause answers 500 (app.py 209-211)
CollaboratorPcs ==
    {"save_transcript", "save_agent", "load_transcript", "load_agent", "rag_chain"}

Raise(c) ==
    /\ pc[c] \in CollaboratorPcs
    /\ resp' = [resp EXCEPT ![c] = ErrorResp("collaborator failure")]
    /\ pc' = [pc EXCEPT ![c] = "done"]
    /\ UNCHANGED <<uploads, index_cache, faiss_dirs, req, loc, gen, rag>>

(***************************************************************************)
(* What the Classifier may answer in the first phase.                      *)
(***************************************************************************)
\* a well-formed record: CARE eligible with two snippets, ASSET not eligible
RawFull ==
    <<LBRACE, K_pain_points, COLON, LBRACK, "\"p1\"", COMMA, "\"p2\"", RBRACK, COMMA,
      K_eligibility, COLON, LBRACE,
          Quoted["CARE"], COLON, LBRACE, K_eligible, COLON, "true", COMMA,
              K_evidence, COLON, LBRACK, "\"q1\"", COMMA, "\"q2\"", RBRACK, RBRACE, COMMA,
          Quoted["ASSET"], COLON, LBRACE, K_eligible, COLON, "false", COMMA,
              K_evidence, COLON, LBRACK, RBRACK, RBRACE,
      RBRACE, COMMA,
      K_agents, COLON, LBRACK, Quoted["CARE"], RBRACK, COMMA,
      K_rationale, COLON, LBRACE, Quoted["CARE"], COLON, "\"r\"", RBRACE, RBRACE>>

\* the record wrapped in prose: Here result {"pain_points": [], "eligibility": {}}
RawWrapped ==
    <<"Here", WS, "result", WS, LBRACE, K_pain_points, COLON, LBRACK, RBRACK, COMMA, WS,
      K_eligibility, COLON, LBRACE, RBRACE, RBRACE>>

\* a record wrapped in prose that has agents
RawWrappedAgents ==
    <<"Here", WS, LBRACE, K_pain_points, COLON, LBRACK, "\"p2\"", RBRACK, COMMA,
      K_agents, COLON, LBRACK, Quoted["TEAM"], RBRACK, RBRACE, WS, "result">>

\* a record that lists an agent it marks not eligible, with one snippet
RawIneligibleListed ==
    <<LBRACE, K_pain_points, COLON, LBRACK, "\"p1\"", RBRACK, COMMA,
      K_eligibility, COLON, LBRACE,
          Quoted["ASSET"], COLON, LBRACE, K_eligible, COLON, "false", COMMA,
              K_evidence, COLON, LBRACK, "\"q1\"", RBRACK, RBRACE,
      RBRACE, COMMA,
      K_agents, COLON, LBRACK, Quoted["ASSET"], RBRACK, RBRACE>>

\* a record that lists a code outside the catalog
RawUnknownAgent ==
    <<LBRACE, K_agents, COLON, LBRACK, Quoted["BOGUS"], RBRACK, RBRACE>>

\* prose only
RawProse == <<"Here", WS, "result">>

\* valid JSON that is not a record
RawList == <<LBRACK, "1", RBRACK>>

RawSamples ==
    {RawFull, RawWrapped, RawWrappedAgents, RawIneligibleListed, RawUnknownAgent,
     RawProse, RawList}

\* every text of at most MaxRawLen lexemes over a small alphabet
MaxRawLen == 4
RawAlphabet == {LBRACE, RBRACE, K_agents, COLON, "1", "Here", WS}
ShortRawTexts == UNION {[1..n -> RawAlphabet] : n \in 0..MaxRawLen}

(***************************************************************************)
(* The Retriever, rag_chain (processor.py 103-115).  A Document is known   *)
(* by its rank in the similarity search and by its metadata type; the      *)
(* types are those the sections get in load_all_documents and match_agents.*)
(***************************************************************************)
TopK == 80
TranscriptQuota == 30
AgentQuota == 10

DocTypes == {"transcript", "agent", "company"}

Document(rank, type) == [rank |-> rank, type |-> type]

\* [doc for doc in docs if doc.metadata.get("type") == type]
OfType(docs, type) ==
    LET Is(doc) == doc.type = type IN SelectSeq(docs, Is)

\* docs[:n]
Take(docs, n) ==
    SubSeq(docs, 1, IF Len(docs) < n THEN Len(docs) ELSE n)

\* a bug rag_chain could have: the quota cut made on the ranked result,
\* before the documents are told apart by type
relevant_docs_cut_before_filter(all_docs) ==
    OfType(Take(all_docs, TranscriptQuota), "transcript")
    \o OfType(Take(all_docs, AgentQuota), "agent")

\* relevant_docs = transcript_docs[:30] + agent_docs[:10]  (processor.py 106-109)
relevant_docs(all_docs) ==
    Take(OfType(all_docs, "transcript"), TranscriptQuota)
    \o Take(OfType(all_docs, "agent"), AgentQuota)

\* vectorstore.similarity_search(query, k=80) on an index whose documents,
\* by descending similarity, have the given types (processor.py 105)
similarity_search(types) ==
    Take([i \in 1..Len(types) |-> Document(i, types[i])], TopK)

(***************************************************************************)
(* The indexes searched: the types by descending similarity are at most    *)
(* MaxRuns runs of one type, each of a length around a quota.              *)
(***************************************************************************)
MaxRuns == 3
RunLens == {1, 10, 11, 30, 31}
RunSeqs == UNION {[1..n -> DocTypes \X RunLens] : n \in 1..MaxRuns}

RECURSIVE TypesOf(_)
TypesOf(runs) ==
    IF runs = <<>> THEN <<>>
    ELSE [i \in 1..Head(runs)[2] |-> Head(runs)[1]] \o TypesOf(Tail(runs))

NoRag == [stage |-> "idle", all_docs |-> <<>>, relevant_docs |-> <<>>]

\* rag_chain is entered and the similarity search answers (processor.py 105)
SimilaritySearch ==
    /\ rag.stage = "idle"
    /\ \E runs \in RunSeqs :
          rag' = [stage |-> "searched",
                  all_docs |-> similarity_search(TypesOf(runs)),
                  relevant_docs |-> <<>>]
    /\ UNCHANGED <<uploads, index_cache, faiss_dirs, pc, req, loc, resp, gen>>

\* the evidence passed to the Classifier is put together (processor.py 106-113)
SelectRelevantDocs ==
    /\ rag.stage = "searched"
    /\ rag' = [rag EXCEPT !.stage = "selected",
                          !.relevant_docs = relevant_docs(rag.all_docs)]
    /\ UNCHANGED <<uploads, index_cache, faiss_dirs, pc, req, loc, resp, gen>>

(***************************************************************************)
(* The service: construction, and the interleaved first-phase calls.       *)
(***************************************************************************)
NoGen ==
    [agent |-> "", session_id |-> "", force |-> FALSE, found |-> FALSE,
     matched_agents |-> <<>>, stage |-> "idle", raw |-> <<>>, status |-> 0,
     error |-> "", agent_module |-> <<>>]

\* index_cache = {} and an empty upload folder (app.py 9-13)
Init ==
    /\ uploads = EmptyDict
    /\ index_cache = EmptyDict
    /\ faiss_dirs = EmptyDict
    /\ pc = [c \in Calls |-> "idle"]
    /\ req = [c \in Calls |-> NoReq]
    /\ loc = [c \in Calls |-> NoLoc]
    /\ resp = [c \in Calls |-> NoResp]
    /\ gen = NoGen
    /\ rag = NoRag

\* what the Classifier answers in the interleaved runs
ConcurrentRaw == {RawFull, RawWrappedAgents, RawProse}

Next ==
    \E c \in Calls :
        \/ Begin(c, FullRequest(c))
        \/ SaveTranscript(c)
        \/ SaveAgent(c)
        \/ LoadTranscript(c)
        \/ LoadAgentAndBuild(c)
        \/ StoreIndex(c)
        \/ SaveLocal(c)
        \/ ClassifyAndUpdate(c, ConcurrentRaw)
        \/ Raise(c)

\* two first-phase calls, interleaved in every order
Spec == Init /\ [][Next]_vars

\* one first-phase call, the Classifier answering any short text or sample
NextIngest ==
    \/ Begin("a", AnyRequest("a"))
    \/ SaveTranscript("a")
    \/ SaveAgent("a")
    \/ LoadTranscript("a")
    \/ LoadAgentAndBuild("a")
    \/ StoreIndex("a")
    \/ SaveLocal("a")
    \/ ClassifyAndUpdate("a", ShortRawTexts \cup RawSamples)
    \/ Raise("a")

SpecIngest == Init /\ [][NextIngest]_vars

(***************************************************************************)
(* The second phase: generate_agent_module (app.py 213-319).  The handler  *)
(* reads the Session Store once at its start and writes it only when it    *)
(* recovers a persisted index, before it calls the Classifier.             *)
(***************************************************************************)
GenAgents == {"HYPE", "ASSET", "BOGUS"}
GenSessions == {"default", "s2", "s3"}

\* the entry rebuilt from a persisted index (app.py 222-235)
RecoveredEntry(index, company_info, save_dir) ==
    ("index" :> index) @@ ("transcript_path" :> "") @@ ("agent_path" :> "")
    @@ ("company_info" :> company_info) @@ ("save_dir" :> save_dir)
    @@ ("pain_points" :> PyEmptyList) @@ ("matched_agents" :> PyEmptyList)
    @@ ("rationale" :> PyEmptyDict)

\* cached.get(key, default)
CachedGet(cached, key, default) ==
    IF key \in DOMAIN cached THEN cached[key] ELSE default

\* the text returned as agent_module for the Classifier's text (app.py 297-315)
AgentModule(agent_name, classifier_text) ==
    LET result == strip_meta(classifier_text) IN
    IF strip(result) = safe_empty THEN <<>>
    ELSE LET cleaned == remove_forbidden_lines(agent_name, result).cleaned IN
         IF find_violations(agent_name, cleaned) # {} THEN <<>>
         ELSE cleaned

GenResp(agent, sid, force, found, matched, stage, status, error) ==
    [agent |-> agent, session_id |-> sid, force |-> force, found |-> found,
     matched_agents |-> matched, stage |-> stage, raw |-> <<>>,
     status |-> status, error |-> error, agent_module |-> <<>>]

\* a request arrives: the session is looked up, or recovered from its
\* persisted index, and the agent name is checked; then the handler calls
\* the Classifier (app.py 216-246, 297)
GenRequest ==
    /\ gen.stage # "waiting"
    /\ \E agent \in GenAgents, sid \in GenSessions, force \in BOOLEAN :
       \E store \in {IF sid \notin DOMAIN index_cache /\ sid \in DOMAIN faiss_dirs
                     THEN DictPut(index_cache, sid, RecoveredEntry(faiss_dirs[sid], "", sid))
                     ELSE index_cache} :
          /\ index_cache' = store
          /\ gen' = IF sid \notin DOMAIN store
                    THEN GenResp(agent, sid, force, FALSE, <<>>, "answered", 400,
                                 "No index found for session.")
                    ELSE IF agent \notin AGENT_DEFINITIONS
                    THEN GenResp(agent, sid, force, TRUE, <<>>, "answered", 400,
                                 "Invalid agent name")
                    ELSE GenResp(agent, sid, force, TRUE,
                                 CachedGet(store[sid], "matched_agents", PyEmptyList),
                                 "waiting", 0, "")
    /\ UNCHANGED <<uploads, faiss_dirs, pc, req, loc, resp, rag>>

\* rag_chain returns the Classifier's text, which is filtered and returned
\* (app.py 297-315)
GenRespond(Texts) ==
    /\ gen.stage = "waiting"
    /\ \E text \in Texts :
          gen' = [gen EXCEPT !.stage = "answered", !.status = 200, !.raw = text,
                             !.agent_module = AgentModule(gen.agent, text)]
    /\ UNCHANGED <<uploads, index_cache, faiss_dirs, pc, req, loc, resp, rag>>

\* rag_chain raises: the except clause answers 500 (app.py 317-319)
GenRaise ==
    /\ gen.stage = "waiting"
    /\ gen' = [gen EXCEPT !.stage = "answered", !.status = 500,
                          !.error = "collaborator failure"]
    /\ UNCHANGED <<uploads, index_cache, faiss_dirs, pc, req, loc, resp, rag>>

(***************************************************************************)
(* What the Classifier may answer in the second phase: every text of at    *)
(* most MaxAtoms pieces, and some longer samples.                          *)
(***************************************************************************)
A_Chatbot == <<"C","h","a","t","b","o","t">>
A_ok == <<"o","k">>
A_SOURCES == <<"S","O","U","R","C","E","S",":">>

ModuleAtoms == {T_invoice, A_Chatbot, A_ok, <<NL>>, <<" ">>, safe_empty, FENCE, A_SOURCES}

RECURSIVE Concat(_)
Concat(pieces) ==
    IF pieces = <<>> THEN <<>> ELSE Head(pieces) \o Concat(Tail(pieces))

MaxAtoms == 3
ShortModuleTexts ==
    {Concat(s) : s \in UNION {[1..n -> ModuleAtoms] : n \in 0..MaxAtoms}}

ModuleSamples ==
    {Concat(<<T_invoice, <<NL>>, <<NL>>, <<" ">>, A_ok, <<NL>>, A_Chatbot, <<NL>>, A_ok>>),
     Concat(<<A_ok, <<" ">>, T_cash_flow, <<NL>>, <<NL>>, A_ok, <<" ">>, <<NL>>, T_pipeline>>),
     Concat(<<A_SOURCES, <<" ">>, A_ok, <<NL>>, FENCE, T_invoice, <<NL>>, FENCE, <<NL>>,
              A_ok, <<NL>>, safe_empty>>)}

\* the store a finished first phase leaves for "default" (RawFull, index
\* persisted), and an index persisted for "s2" by an earlier run of the process
IndexOfA == Chunks(Doc("a", "transcript"), Doc("a", "agent_manual"), "info of a")

InitModule ==
    /\ uploads = ("call.pdf" :> Doc("a", "transcript"))
                 @@ ("manual.pdf" :> Doc("a", "agent_manual"))
    /\ index_cache =
          ("default" :>
              DictUpdate(DictPut(NewEntry(IndexOfA, "call.pdf", "manual.pdf", "info of a"),
                                 "save_dir", "default"),
                         AnalysisFields(ParsedOrEmpty(_safe_json_extract(RawFull)))))
    /\ faiss_dirs = ("default" :> IndexOfA) @@ ("s2" :> IndexOfA)
    /\ pc = [c \in Calls |-> "idle"]
    /\ req = [c \in Calls |-> NoReq]
    /\ loc = [c \in Calls |-> NoLoc]
    /\ resp = [c \in Calls |-> NoResp]
    /\ gen = NoGen
    /\ rag = NoRag

\* the Classifier answers any of the samples to every request, and any short
\* text to the requests made without force on the recovered session
NextModule ==
    \/ GenRequest
    \/ GenRespond(ModuleSamples)
    \/ gen.session_id = "s2" /\ ~gen.force /\ GenRespond(ShortModuleTexts)
    \/ GenRaise

\* second-phase requests against a populated store
SpecModule == InitModule /\ [][NextModule]_vars

NextRetrieve ==
    \/ SimilaritySearch
    \/ SelectRelevantDocs

\* one rag_chain call on every index of the bounded family
SpecRetrieve == Init /\ [][NextRetrieve]_vars

(***************************************************************************)
(* Reading a first-phase exchange.                                         *)
(***************************************************************************)
Succeeded(c) == pc[c] = "done" /\ resp[c].status = 200
Failed(c) == pc[c] = "done" /\ resp[c].status = 500
Quiescent == \A c \in Calls : pc[c] \in {"idle", "done"}

\* the record the Classifier gave for agent a in call c, {} when it gave none
ClassifierRecord(c, a) ==
    LET parsed == ParsedOrEmpty(loc[c].extracted)
        elig == IF IsDict(parsed) THEN DictGet(parsed, K_eligibility, PyEmptyDict)
                ELSE PyEmptyDict
    IN IF IsDict(elig)
       THEN LET r == DictGet(elig, Quoted[a], PyEmptyDict) IN
            IF IsDict(r) THEN r ELSE PyEmptyDict
       ELSE PyEmptyDict

MarkedEligible(c, a) == DictGet(ClassifierRecord(c, a), K_eligible, PyNone) = <<"true">>
MarkedNotEligible(c, a) == DictGet(ClassifierRecord(c, a), K_eligible, PyNone) = <<"false">>

\* the values in a delivered agent list (the value itself when it is no list)
Listed(v) ==
    IF IsList(v) THEN {ListElems(v)[n] : n \in 1..Len(ListElems(v))} ELSE {v}

\* the agents delivered by call c: in its response and in the cached entry
Delivered(c) ==
    Listed(resp[c].matched_agents)
    \cup Listed(index_cache[req[c].session_id]["matched_agents"])

(***************************************************************************)
(* C1. Ingestion is all-or-nothing: a call that ends in an error leaves    *)
(* the Session Store entry of its session exactly as it was before the     *)
(* call, and no entry with an index but without the analysis fields is     *)
(* left behind.  (Stated for one call at a time: SpecIngest.)              *)
(***************************************************************************)
C1_AllOrNothing ==
    /\ \A c \in Calls : Failed(c) => StoreAt(req[c].session_id) = loc[c].before
    /\ Quiescent =>
          \A s \in DOMAIN index_cache :
              {"pain_points", "matched_agents", "rationale"} \subseteq DOMAIN index_cache[s]

(***************************************************************************)
(* Reading a second-phase exchange.                                        *)
(***************************************************************************)
ModuleReturned == gen.stage = "answered" /\ gen.status = 200

\* the line holds a forbidden term of the agent, whatever the letter case
LineMatches(agent, line) ==
    \E n \in 1..Len(ForbiddenOf(agent)) :
        Contains(lower(line), lower(ForbiddenOf(agent)[n]))

\* the lines of a text that hold no forbidden term of the agent, in order
CleanLines(agent, text) ==
    LET NoMatch(line) == ~LineMatches(agent, line) IN
    SelectSeq(splitlines(text), NoMatch)

(***************************************************************************)
(* C2. Eligibility gate: a request for a valid agent of an existing        *)
(* session that is not among the session's matched agents, without force,  *)
(* is answered by a rejection (a 4xx, not a 5xx) and returns no module     *)
(* text.                                                                   *)
(***************************************************************************)
C2_EligibilityGate ==
    (/\ gen.stage = "answered" /\ gen.status # 500
     /\ gen.found /\ gen.agent \in AGENT_DEFINITIONS
     /\ <<Quoted[gen.agent]>> \notin Listed(gen.matched_agents)
     /\ ~gen.force) =>
        gen.status \in 400..499 /\ gen.agent_module = <<>>

(***************************************************************************)
(* C3. Ownership enforcement, as claimed: the returned agent_module has    *)
(* no line that holds a forbidden term of the agent, and it is made of     *)
(* every line of the meta-stripped output that holds none, in the original *)
(* order (as text: joined by newlines, trimmed at both ends).              *)
(***************************************************************************)
C3_OwnershipAsClaimed ==
    ModuleReturned =>
        /\ \A n \in 1..Len(splitlines(gen.agent_module)) :
               ~LineMatches(gen.agent, splitlines(gen.agent_module)[n])
        /\ gen.agent_module = strip(join(CleanLines(gen.agent, strip_meta(gen.raw))))

(***************************************************************************)
(* C3, amended. The returned agent_module has no line that holds a         *)
(* forbidden term of the agent; it is the lines of the meta-stripped       *)
(* output that hold none, in their original order, joined by newlines and  *)
(* trimmed of leading and trailing whitespace (blank lines at either end   *)
(* go), except that it is empty when the meta-stripped output is exactly   *)
(* the sentinel sentence.                                                  *)
(***************************************************************************)
C3_OwnershipEnforced ==
    ModuleReturned =>
        /\ \A n \in 1..Len(splitlines(gen.agent_module)) :
               ~LineMatches(gen.agent, splitlines(gen.agent_module)[n])
        /\ gen.agent_module =
              IF strip_meta(gen.raw) = safe_empty THEN <<>>
              ELSE strip(join(CleanLines(gen.agent, strip_meta(gen.raw))))

\* a module was returned from which an offending line was dropped, and a
\* blank line that the dropped line left at the top was trimmed
C3_Witness ==
    /\ ModuleReturned
    /\ gen.agent_module # <<>>
    /\ LineMatches(gen.agent, Head(splitlines(strip_meta(gen.raw))))
    /\ Len(splitlines(gen.agent_module)) >= 2
    /\ Len(splitlines(gen.agent_module))
          < Len(CleanLines(gen.agent, strip_meta(gen.raw)))

(***************************************************************************)
(* C4. Absence of content is an empty string: when the text left after     *)
(* all filtering (fence and sources stripping, forbidden-line deletion) is *)
(* empty or is the sentinel sentence alone, agent_module is "", and the    *)
(* sentinel text is never returned as agent_module.                        *)
(***************************************************************************)
C4_EmptySignalsAbsence ==
    ModuleReturned =>
        /\ remove_forbidden_lines(gen.agent, strip_meta(gen.raw)).cleaned
              \in {<<>>, safe_empty} => gen.agent_module = <<>>
        /\ gen.agent_module # safe_empty


(***************************************************************************)
(* C5. ParseFailure is recovered locally: whenever the Result Parser has   *)
(* obtained no record (no JSON object) from the raw Classifier text,       *)
(* match_agents answers success with empty pain points, no matched agents  *)
(* and an empty rationale, and caches those same empty values in the       *)
(* session entry.                                                          *)
(***************************************************************************)
C5_ParseFailureRecovered ==
    \A c \in Calls :
        (pc[c] = "done" /\ loc[c].has_result /\ ~IsDict(loc[c].extracted)) =>
            /\ resp[c].status = 200
            /\ resp[c].pain_points = PyEmptyList
            /\ resp[c].matched_agents = PyEmptyList
            /\ resp[c].rationale = PyEmptyDict
            /\ req[c].session_id \in DOMAIN index_cache
            /\ LET e == index_cache[req[c].session_id] IN
                  /\ {"pain_points", "matched_agents", "rationale"} \subseteq DOMAIN e
                  /\ e["pain_points"] = PyEmptyList
                  /\ e["matched_agents"] = PyEmptyList
                  /\ e["rationale"] = PyEmptyDict

(***************************************************************************)
(* C6. Evidence threshold, downgrade only: in the result the first phase   *)
(* delivers (response and cached fields), no agent that the Classifier     *)
(* marked not eligible is delivered as eligible; in particular such an     *)
(* agent with fewer than 2 evidence snippets is not delivered, whether or  *)
(* not it is on the low-priority list.                                     *)
(***************************************************************************)
C6_EvidenceThreshold ==
    \A c \in Calls : Succeeded(c) =>
        \A a \in AGENT_DEFINITIONS :
            MarkedNotEligible(c, a) => <<Quoted[a]>> \notin Delivered(c)

(***************************************************************************)
(* C7. The agent list the first phase delivers holds only codes of the     *)
(* 8-agent catalog whose eligibility record in the same result says        *)
(* eligible = true.                                                        *)
(***************************************************************************)
C7_RankedOnlyEligible ==
    \A c \in Calls : Succeeded(c) =>
        \A x \in Delivered(c) :
            \E a \in AGENT_DEFINITIONS : x = <<Quoted[a]>> /\ MarkedEligible(c, a)

(***************************************************************************)
(* C8. Same-session race is last-write-wins: when two calls for the same   *)
(* session id have both succeeded, the entry is the complete entry of one  *)
(* of them: index, company_info, pain points, matched agents and           *)
(* rationale all come from the same call.                                  *)
(***************************************************************************)
EntryIsOf(e, c) ==
    /\ e["index"] = loc[c].index
    /\ e["company_info"] = req[c].company_info
    /\ e["pain_points"] = loc[c].pain_points
    /\ e["matched_agents"] = loc[c].matched_agents
    /\ e["rationale"] = loc[c].rationale

C8_LastWriteWins ==
    \A c, d \in Calls :
        (c # d /\ Succeeded(c) /\ Succeeded(d)
              /\ req[c].session_id = req[d].session_id) =>
            \E x \in {c, d} : EntryIsOf(index_cache[req[c].session_id], x)

(***************************************************************************)
(* C9. Sessions are independent: the entry of a session that only one      *)
(* call has used is derived only from the documents and company info       *)
(* uploaded in that call, whatever calls for other sessions did and        *)
(* whatever their file names were.                                         *)
(***************************************************************************)
C9_SessionsIndependent ==
    \A c \in Calls :
        (Succeeded(c)
            /\ \A d \in Calls \ {c} : req[d].session_id # req[c].session_id) =>
            LET e == index_cache[req[c].session_id] IN
            /\ e["index"] = Chunks(req[c].transcript, req[c].agent, req[c].company_info)
            /\ e["company_info"] = req[c].company_info
            /\ e["pain_points"] = loc[c].pain_points
            /\ e["matched_agents"] = loc[c].matched_agents
            /\ e["rationale"] = loc[c].rationale

(***************************************************************************)
(* C10. Result Parser decode order: the parser returns the decode of the   *)
(* full text when that succeeds; otherwise, when the text has a "{" and a  *)
(* later "}", the decode of the text from the first "{" to the last "}"    *)
(* when that succeeds; otherwise ParseFailure.                             *)
(***************************************************************************)
HasBraces(t) ==
    \E i, j \in 1..Len(t) : i < j /\ t[i] = LBRACE /\ t[j] = RBRACE

FirstLBrace(t) == CHOOSE i \in 1..Len(t) :
    t[i] = LBRACE /\ \A k \in 1..(i - 1) : t[k] # LBRACE

LastRBrace(t) == CHOOSE j \in 1..Len(t) :
    t[j] = RBRACE /\ \A k \in (j + 1)..Len(t) : t[k] # RBRACE

Embedded(t) == SubSeq(t, FirstLBrace(t), LastRBrace(t))

C10_ParseDecodeOrder ==
    \A c \in Calls : loc[c].has_result =>
        LET t == loc[c].result_text
            got == loc[c].extracted
        IN /\ json_loads(t).ok => got = json_loads(t).val
           /\ (~json_loads(t).ok /\ HasBraces(t) /\ json_loads(Embedded(t)).ok) =>
                  got = json_loads(Embedded(t)).val
           /\ (~json_loads(t).ok /\ ~(HasBraces(t) /\ json_loads(Embedded(t)).ok)) =>
                  got = PyNone

\* a record wrapped in prose on both sides has been extracted
C10_Witness ==
    \E c \in Calls :
        /\ loc[c].has_result
        /\ ~json_loads(loc[c].result_text).ok
        /\ IsDict(loc[c].extracted)
        /\ loc[c].extracted # PyEmptyDict
        /\ Head(loc[c].result_text) \in ProseToks
        /\ loc[c].result_text[Len(loc[c].result_text)] \in ProseToks

(***************************************************************************)
(* C11. Retriever quotas and order: the evidence passed to the Classifier  *)
(* is the first at most 30 transcript documents of the ranked result, in   *)
(* ranked order, followed by the first at most 10 agent documents, in      *)
(* ranked order: it holds at most 30 transcript and 10 agent documents,    *)
(* no agent document precedes a transcript document, and every document    *)
(* in it comes from the ranked result.                                     *)
(***************************************************************************)
Earlier(docs, doc) ==
    Cardinality({i \in 1..Len(docs) : docs[i].type = doc.type /\ docs[i].rank < doc.rank})

QuotaOf(type) ==
    CASE type = "transcript" -> 30
      [] type = "agent" -> 10
      [] OTHER -> 0

Members(docs) == {docs[i] : i \in 1..Len(docs)}

C11_RetrieverQuotas ==
    rag.stage = "selected" =>
        LET ranked == rag.all_docs
            ev == rag.relevant_docs
        IN /\ Members(ev) \subseteq Members(ranked)
           /\ Cardinality({i \in 1..Len(ev) : ev[i].type = "transcript"}) <= 30
           /\ Cardinality({i \in 1..Len(ev) : ev[i].type = "agent"}) <= 10
           /\ \A i, j \in 1..Len(ev) :
                  i < j => /\ ~(ev[i].type = "agent" /\ ev[j].type = "transcript")
                           /\ ev[i].type = ev[j].type => ev[i].rank < ev[j].rank
           /\ \A doc \in Members(ranked) :
                  doc \in Members(ev) <=> Earlier(ranked, doc) < QuotaOf(doc.type)

\* both quotas cut the ranked result, which also held an agent document
\* ahead of a transcript document and a document of a third type
C11_Witness ==
    /\ rag.stage = "selected"
    /\ Len(OfType(rag.all_docs, "transcript")) > 30
    /\ Len(OfType(rag.all_docs, "agent")) > 10
    /\ Len(OfType(rag.all_docs, "company")) > 0
    /\ rag.all_docs[1].type = "agent"
    /\ Len(rag.relevant_docs) = 40
    /\ rag.relevant_docs[1].type = "transcript"

(***************************************************************************)
(* C12. Forbidden-term matching is whole-word: a line of the meta-stripped *)
(* output in which no forbidden term of the agent occurs as a whole word   *)
(* or phrase (a term inside a longer word does not count) is kept in the   *)
(* returned agent_module.  The code has no allow-list of safe phrases, so  *)
(* only the whole-word half is stated; the sentinel case is left to C3.    *)
(***************************************************************************)
WordChars ==
    {LowerChars[n] : n \in 1..26} \cup {UpperChars[n] : n \in 1..26}
    \cup {"0", "1", "2", "3", "4", "5", "6", "7", "8", "9", "_"}

WholeWordAt(ll, i, term) ==
    /\ StartsWithAt(ll, i, term)
    /\ i = 1 \/ ll[i - 1] \notin WordChars
    /\ i + Len(term) > Len(ll) \/ ll[i + Len(term)] \notin WordChars

WholeWordMatch(agent, line) ==
    \E n \in 1..Len(ForbiddenOf(agent)) : \E i \in 1..Len(line) :
        WholeWordAt(lower(line), i, lower(ForbiddenOf(agent)[n]))

C12_WholeWordMatching ==
    (ModuleReturned /\ strip_meta(gen.raw) # safe_empty) =>
        \A n \in 1..Len(splitlines(strip_meta(gen.raw))) :
            LET line == splitlines(strip_meta(gen.raw))[n] IN
            (strip(line) # <<>> /\ ~WholeWordMatch(gen.agent, line)) =>
                \E m \in 1..Len(splitlines(gen.agent_module)) :
                    strip(splitlines(gen.agent_module)[m]) = strip(line)

(***************************************************************************)
(* C13. Sanitization idempotence: strip_meta followed by                   *)
(* remove_forbidden_lines, applied to its own output for the same agent,   *)
(* returns that output unchanged and reports no removed line.              *)
(***************************************************************************)
Sanitize(agent, text) == remove_forbidden_lines(agent, strip_meta(text))

C13_SanitizationIdempotent ==
    ModuleReturned =>
        \E once \in {Sanitize(gen.agent, gen.raw)} :
        \E twice \in {Sanitize(gen.agent, once.cleaned)} :
            /\ twice.cleaned = once.cleaned
            /\ twice.removed = <<>>

\* the first pass dropped a forbidden line, trimmed the text and left some
C13_Witness ==
    /\ ModuleReturned
    /\ Sanitize(gen.agent, gen.raw).removed # <<>>
    /\ Sanitize(gen.agent, gen.raw).cleaned # <<>>
    /\ Len(Sanitize(gen.agent, gen.raw).cleaned)
          < Len(join(CleanLines(gen.agent, strip_meta(gen.raw))))

====
